---- MODULE Spec2Model ----
(***************************************************************************)
(* Multi-Service Network with SDN and QoS: a model of                      *)
(*   - the capture analysis pipeline   (src/src/traffic_analyzer.py),      *)
(*   - the threaded traffic generator  (src/src/traffic_generator.py),     *)
(*   - the command line entry point    (src/run_experiment.py),             *)
(*   - the topology, its QoS and one run (src/src/network_topology.py).     *)
(* Each component has its own specification (SpecAnalyzer, SpecTraffic,    *)
(* FairTraffic, SpecMain, SpecExperiment); the variables of the other      *)
(* components stay at their idle values.                                   *)
(***************************************************************************)
EXTENDS Integers, Sequences, FiniteSets, TLC

VARIABLES
    \* ---- TrafficAnalyzer.run_full_analysis
    pcap_dir,        \* os.listdir(self.pcap_dir): file names, in listing order
    an_pc,           \* position inside run_full_analysis
    idx,             \* index of the next entry of pcap_files to ingest
    results,         \* the list `results` built by analyze_all_pcaps
    an_out,          \* what the analyzer printed (stdout)
    protocol_chart,  \* total_protocols plotted by generate_protocol_chart
    switch_chart,    \* switch_data plotted by generate_traffic_by_switch
    host_chart,      \* host_data plotted by generate_host_traffic_matrix
    report,          \* the content of analysis_report.txt
    \* ---- TrafficGenerator
    duration,        \* the duration argument of start_all_traffic, in seconds
    now,             \* seconds since start_all_traffic (time.time() - start_time)
    stop_event,      \* self.stop_event (threading.Event)
    t_pc,            \* position of each workload thread
    sleep,           \* seconds left of each thread's current time.sleep
    hung,            \* the iperf client a thread waits for never ends by itself
    killed,          \* `killall iperf` has run
    packet_count,    \* packet_count of generate_iot_traffic
    quality,         \* quality of generate_video_traffic
    video_wrote,     \* the line the video workload's latest step wrote to its log
    observed,        \* the threads whose loop test found stop_event set
    tg_pc,           \* position of the caller of start_all_traffic / stop_all_traffic
    join_idx,        \* index into self.traffic_threads of the thread being joined
    join_left,       \* seconds left of the current thread.join(timeout=5)
    since_stop,      \* seconds since stop_event was set
    tg_out,          \* what the generator printed or logged about its threads
    \* ---- run_experiment.py: main and ExperimentRunner
    args,            \* the parsed command line: demo, all, qos, routing
    m_pc,            \* position inside main
    exp_i,           \* the loop index i of run_all_experiments
    results_summary, \* results_summary of run_all_experiments
    raised,          \* the exception that left the try block of main
    ops,             \* the operations performed so far, in order
    \* ---- network_topology.py: run_experiment, one run per routing mode
    x_qos,           \* the qos_enabled argument (the same in both runs)
    x_duration,      \* the duration argument (the same in both runs)
    x_pc,            \* position of each run inside run_experiment
    x_i,             \* loop index of each run inside its current loop
    x_ops            \* what each run has done so far, in order

an_vars == <<pcap_dir, an_pc, idx, results, an_out, protocol_chart,
             switch_chart, host_chart, report>>

tg_vars == <<duration, now, stop_event, t_pc, sleep, hung, killed, packet_count,
             quality, video_wrote, observed, tg_pc, join_idx, join_left,
             since_stop, tg_out>>

main_vars == <<args, m_pc, exp_i, results_summary, raised, ops>>

x_vars == <<x_qos, x_duration, x_pc, x_i, x_ops>>

vars == <<an_vars, tg_vars, main_vars, x_vars>>

NONE == "none"

(***************************************************************************)
(* Bounds of the model.                                                    *)
(***************************************************************************)
MaxFiles == 2       \* entries in the pcap directory
MaxTotal == 2       \* lines printed by `tcpdump -r f -nn | wc -l`
MaxProto == 1       \* lines printed by each of the tcp / udp / icmp filters
MaxHostLines == 1   \* lines of the `sort | uniq -c` source address listing
MaxHostCount == 1   \* the count on such a line
MaxDuration == 5    \* the duration argument, in seconds

(***************************************************************************)
(* Generic helpers.                                                        *)
(***************************************************************************)
RECURSIVE SumSeq(_)
SumSeq(s) == IF s = <<>> THEN 0 ELSE Head(s) + SumSeq(Tail(s))

Perms(n) == { p \in [1..n -> 1..n] : \A i, j \in 1..n : p[i] = p[j] => i = j }

Permute(s, p) == [i \in 1..Len(s) |-> s[p[i]]]

(***************************************************************************)
(* File names are sequences of tokens; "_" is the underscore character and *)
(* the last token carries the extension.  A capture is written as          *)
(* <switch>_<date>_<time>.pcap; the directory may hold other files too.    *)
(***************************************************************************)
FileNames ==
    { <<"s1", "_", "d1", "_", "t1", ".pcap">>,
      <<"s1", "_", "d1", "_", "t2", ".pcap">>,
      <<"s2", "_", "d1", "_", "t1", ".pcap">>,
      <<"s3", ".pcap">>,
      <<"notes", ".txt">> }

\* f.endswith('.pcap')
EndsWithPcap(f) == Len(f) > 0 /\ f[Len(f)] = ".pcap"

HasUnderscore(f) == \E i \in 1..Len(f) : f[i] = "_"

\* filename.split('_')[0]: everything before the first underscore, the whole
\* name when there is none.
SplitFirst(f) ==
    IF HasUnderscore(f)
    THEN LET k == CHOOSE i \in 1..Len(f) :
                      f[i] = "_" /\ \A j \in 1..(i - 1) : f[j] # "_"
         IN  SubSeq(f, 1, k - 1)
    ELSE f

\* The listings the directory can have: distinct names in arbitrary order.
Listings ==
    UNION { { s \in [1..n -> FileNames] : \A i, j \in 1..n : s[i] = s[j] => i = j }
            : n \in 0..MaxFiles }

\* [f for f in os.listdir(self.pcap_dir) if f.endswith('.pcap')]
pcap_files == SelectSeq(pcap_dir, EndsWithPcap)

(***************************************************************************)
(* Addresses are sequences of octets.                                      *)
(***************************************************************************)
ObservedIPs == { <<10, 0, 0, 1>>, <<10, 0, 1, 1>>, <<192, 168, 0, 1>> }

\* ip.startswith('10.0.')
InEmulatedNet(ip) == ip[1] = 10 /\ ip[2] = 0

\* The outputs tcpdump can give for one capture file: the four independent
\* line counts and the `uniq -c` listing of source addresses.
SrcListings ==
    UNION { [D -> 1..MaxHostCount] :
            D \in { S \in SUBSET ObservedIPs : Cardinality(S) <= MaxHostLines } }

RawSummaries ==
    [total : 0..MaxTotal, tcp : 0..MaxProto, udp : 0..MaxProto,
     icmp : 0..MaxProto, src : SrcListings]

(***************************************************************************)
(* TrafficAnalyzer.analyze_pcap: the record built from one capture.        *)
(***************************************************************************)
analyze_pcap(file, raw) ==
    LET counted == raw.tcp + raw.udp + raw.icmp
        kept == { ip \in DOMAIN raw.src : InEmulatedNet(ip) }
    IN  [ total_packets |-> raw.total,
          protocols |-> [ TCP |-> raw.tcp, UDP |-> raw.udp, ICMP |-> raw.icmp,
                          Other |-> raw.total - counted ],
          host_traffic |-> [ ip \in kept |-> [ sent |-> raw.src[ip], received |-> 0 ] ],
          filename |-> file ]

(***************************************************************************)
(* The folds of the generate_* methods, as the code computes them.         *)
(***************************************************************************)
Protocols == {"TCP", "UDP", "ICMP", "Other"}

\* generate_protocol_chart: total_protocols[protocol] += count
RECURSIVE TotalProtocols(_)
TotalProtocols(rs) ==
    IF rs = <<>> THEN [p \in {} |-> 0]
    ELSE LET n == Len(rs)
             acc == TotalProtocols(SubSeq(rs, 1, n - 1))
         IN  [p \in DOMAIN acc \cup Protocols |->
                 (IF p \in DOMAIN acc THEN acc[p] ELSE 0) + rs[n].protocols[p]]

\* generate_traffic_by_switch: switch_data[switch_name] = result['total_packets']
RECURSIVE SwitchData(_)
SwitchData(rs) ==
    IF rs = <<>> THEN [s \in {} |-> 0]
    ELSE LET n == Len(rs)
             acc == SwitchData(SubSeq(rs, 1, n - 1))
             name == SplitFirst(rs[n].filename)
         IN  [s \in DOMAIN acc \cup {name} |->
                 IF s = name THEN rs[n].total_packets ELSE acc[s]]

\* generate_host_traffic_matrix: host_data[host]['sent'] += ..., ['received'] += ...
RECURSIVE HostData(_)
HostData(rs) ==
    IF rs = <<>> THEN [h \in {} |-> 0]
    ELSE LET n == Len(rs)
             acc == HostData(SubSeq(rs, 1, n - 1))
             ht == rs[n].host_traffic
             old(h) == IF h \in DOMAIN acc THEN acc[h]
                       ELSE [sent |-> 0, received |-> 0]
         IN  [h \in DOMAIN acc \cup DOMAIN ht |->
                 IF h \in DOMAIN ht
                 THEN [sent |-> old(h).sent + ht[h].sent,
                       received |-> old(h).received + ht[h].received]
                 ELSE acc[h]]

\* generate_report: the service a host address is counted under
ServiceOf(ip) ==
    IF ip[1] = 10 /\ ip[2] = 0 /\ ip[3] = 1 THEN "Web"
    ELSE IF ip[1] = 10 /\ ip[2] = 0 /\ ip[3] = 2 THEN "Video"
    ELSE IF ip[1] = 10 /\ ip[2] = 0 /\ ip[3] = 3 THEN "IoT"
    ELSE NONE

RECURSIVE SumOver(_, _)
SumOver(S, f) ==
    IF S = {} THEN 0
    ELSE LET x == CHOOSE y \in S : TRUE IN f[x] + SumOver(S \ {x}, f)

\* the packets one record adds to a service's total
ServiceShare(r, svc) ==
    LET hs == { h \in DOMAIN r.host_traffic : ServiceOf(h) = svc }
    IN  SumOver(hs, [h \in hs |-> r.host_traffic[h].sent + r.host_traffic[h].received])

\* n / d rounded to the nearest integer, d > 0 (no tie arises for the counts
\* considered: a thousand times a count has no half when divided by 1, 2 or 3)
RoundDiv(n, d) == (2 * n + d) \div (2 * d)

\* (count / total * 100) if total > 0 else 0, as f"{percentage:.1f}" prints
\* it: in tenths of a percent
Percentage(count, total) ==
    IF total > 0 THEN RoundDiv(count * 1000, total) ELSE 0

\* generate_report: what is written to analysis_report.txt
Report(rs) ==
    [ total_packets |-> SumSeq([i \in 1..Len(rs) |-> rs[i].total_packets]),
      num_files |-> Len(rs),
      per_switch |-> [i \in 1..Len(rs) |->
                        [ switch_name |-> SplitFirst(rs[i].filename),
                          total_packets |-> rs[i].total_packets,
                          protocols |-> rs[i].protocols,
                          percentage |->
                            [p \in Protocols |->
                               Percentage(rs[i].protocols[p], rs[i].total_packets)] ]],
      service_traffic |-> [svc \in {"Web", "Video", "IoT"} |->
                             SumSeq([i \in 1..Len(rs) |-> ServiceShare(rs[i], svc)])] ]

(***************************************************************************)
(* TrafficGenerator: the workload threads of start_all_traffic.            *)
(* Time is counted in whole seconds; a sleep of a fraction of a second     *)
(* takes the next whole second, a command that returns at once takes none. *)
(***************************************************************************)
Units == {"web", "video", "iot", "cross1", "cross2"}

\* self.traffic_threads, in the order start_all_traffic appends them
traffic_threads == <<"web", "video", "iot", "cross1", "cross2">>

\* the (src, dst) host handles start_all_traffic passes to each workload
UnitHosts(u) ==
    CASE u = "web" -> {"h1", "h2"}
      [] u = "video" -> {"h3", "h4"}
      [] u = "iot" -> {"h5", "h6"}
      [] u = "cross1" -> {"h1", "h3"}
      [] OTHER -> {"h4", "h5"}

\* the generator a workload draws from: every workload calls the functions of
\* the `random` module, that is, the module's one shared generator
RandomSource(u) == "random"

\* the log file a workload opens for writing
LogTarget(u) ==
    CASE u = "web" -> <<"web_traffic">>
      [] u = "video" -> <<"video_traffic">>
      [] u = "iot" -> <<"iot_traffic">>
      [] u = "cross1" -> <<"cross_traffic", "web-to-video">>
      [] OTHER -> <<"cross_traffic", "video-to-iot">>

\* the threads that run an iperf client with sendCmd and wait for its output
IperfUnits == {"video", "cross1", "cross2"}

Qualities == {"480p", "720p", "1080p", "4k"}

\* random.choice(list(bitrates.keys())): any rung, whatever the current one
random_choice(rungs, current) == rungs

JoinTimeout == 5        \* thread.join(timeout=5)
SetupSleep == 1         \* time.sleep(1) after starting the iperf server
VideoTick == 1          \* time.sleep(1) of the video monitor loop
WebThinkMax == 2        \* time.sleep(random.uniform(0.5, 2.0))
IotIntervalMin == 1     \* random.uniform(1, 5)
IotIntervalMax == 5

Min(a, b) == IF a < b THEN a ELSE b

Max(a, b) == IF a > b THEN a ELSE b

\* a thread is over when its target returned or raised
Finished(u) == t_pc[u] \in {"done", "raised"}

\* src.waitOutput() returns: the iperf client ran for its -t duration, or was killed
CommandOver(u) == killed \/ (~hung[u] /\ now >= SetupSleep + duration)

\* thread.join(timeout=5) returns: the thread is over or the timeout elapsed
JoinReturns_NoTimeout(u, left) == Finished(u)

JoinReturns(u, left) == Finished(u) \/ left = 0

\* the longest one iteration of a unit's loop takes (the cross traffic units
\* have no loop: the longest tick of all is taken for them)
TickLen(u) ==
    CASE u = "web" -> WebThinkMax
      [] u = "video" -> VideoTick
      [] OTHER -> IotIntervalMax

TrafficIdle ==
    /\ duration = 0
    /\ now = 0
    /\ stop_event = FALSE
    /\ t_pc = [u \in Units |-> "idle"]
    /\ sleep = [u \in Units |-> 0]
    /\ hung = [u \in IperfUnits |-> FALSE]
    /\ killed = FALSE
    /\ packet_count = 0
    /\ quality = "720p"
    /\ video_wrote = NONE
    /\ observed = {}
    /\ tg_pc = "idle"
    /\ join_idx = 1
    /\ join_left = 0
    /\ since_stop = 0
    /\ tg_out = <<>>

(***************************************************************************)
(* run_experiment.py: main and the ExperimentRunner methods it calls.      *)
(***************************************************************************)
\* the list `experiments` of run_all_experiments: (qos, routing)
experiments ==
    << <<FALSE, "none">>, <<TRUE, "none">>, <<FALSE, "static">>, <<TRUE, "static">> >>

\* what a call can do: return, raise an Exception, or be interrupted by the user
Outcomes == {"ok", "Exception", "KeyboardInterrupt"}

\* the branch main takes: args.demo is tested before args.all
Mode == IF args.demo THEN "demo" ELSE IF args.all THEN "all" ELSE "single"

\* who calls cleanup_previous before an experiment
Caller ==
    CASE Mode = "demo" -> "run_demo_experiment"
      [] Mode = "all" -> "run_all_experiments"
      [] OTHER -> "main"

\* the (qos, routing) passed to run_single_experiment
CurrentExperiment ==
    CASE Mode = "demo" -> <<TRUE, "static">>
      [] Mode = "all" -> experiments[exp_i]
      [] OTHER -> <<args.qos, args.routing>>

\* datetime.now().strftime('%Y%m%d_%H%M%S') of the i-th experiment of a runner:
\* experiments are more than a second apart, so the stamps differ
TimeTokens == <<"t1", "t2", "t3", "t4">>

\* mn.switches of create_topology, in insertion order
switches == <<"s1", "s2", "s3">>

\* f"{pcap_dir}/{sw_name}_{timestamp}.pcap" for the first n switches
CaptureFiles(i, n) ==
    [k \in 1..n |-> <<switches[k], "_", "d1", "_", TimeTokens[i], ".pcap">>]

\* ExperimentRunner.cleanup_previous, called from `from`
CleanupOp(from) == [op |-> "cleanup_previous", from |-> from]

\* the finally clause of main: what it performs, whatever left the try block
FinallyOps_OnSuccessOnly(r) == IF r = "none" THEN <<CleanupOp("finally")>> ELSE <<>>

FinallyOps(r) == <<CleanupOp("finally")>>

MainIdle ==
    /\ args = [demo |-> FALSE, all |-> FALSE, qos |-> FALSE, routing |-> "none"]
    /\ m_pc = "idle"
    /\ exp_i = 1
    /\ results_summary = <<>>
    /\ raised = "none"
    /\ ops = <<>>

(***************************************************************************)
(* network_topology.py: the topology, the QoS policies and run_experiment. *)
(* Two runs of run_experiment are followed side by side: they get the same *)
(* qos_enabled and duration and differ only in the routing argument.       *)
(***************************************************************************)
Routings == {"none", "static"}

\* self.hosts of create_topology, in insertion order
hosts == <<"h1", "h2", "h3", "h4", "h5", "h6">>

\* the ip= given to addHost
HostIP(h) ==
    CASE h = "h1" -> <<10, 0, 0, 1>>
      [] h = "h2" -> <<10, 0, 0, 2>>
      [] h = "h3" -> <<10, 0, 0, 3>>
      [] h = "h4" -> <<10, 0, 0, 4>>
      [] h = "h5" -> <<10, 0, 0, 5>>
      [] OTHER -> <<10, 0, 0, 6>>

\* the service a host belongs to: web servers, video servers, IoT devices
HostClass(h) ==
    CASE h \in {"h1", "h2"} -> "Web"
      [] h \in {"h3", "h4"} -> "Video"
      [] OTHER -> "IoT"

\* the access link of a host: its switch and bw (Mbit/s), delay (ms)
AccessLink(h) ==
    CASE h \in {"h1", "h2"} -> [a |-> h, b |-> "s1", bw |-> 100, delay |-> 1, loss |-> 0]
      [] h \in {"h3", "h4"} -> [a |-> h, b |-> "s2", bw |-> 1000, delay |-> 2, loss |-> 0]
      [] OTHER -> [a |-> h, b |-> "s3", bw |-> 100, delay |-> 5, loss |-> 0]

\* the links between switches; loss in tenths of a percent
InterSwitchLinks ==
    << [a |-> "s1", b |-> "s2", bw |-> 1000, delay |-> 1, loss |-> 0],
       [a |-> "s2", b |-> "s3", bw |-> 100, delay |-> 10, loss |-> 1],
       [a |-> "s1", b |-> "s3", bw |-> 10, delay |-> 20, loss |-> 5] >>

TopoOp(o) == [layer |-> "topology", op |-> o]

\* create_topology: the switches, the hosts, then the links
create_topology_ops ==
    [k \in 1..Len(switches) |-> TopoOp("addSwitch") @@ [name |-> switches[k]]]
    \o [k \in 1..Len(hosts) |->
           TopoOp("addHost") @@ [name |-> hosts[k], ip |-> HostIP(hosts[k])]]
    \o [k \in 1..Len(hosts) |-> TopoOp("addLink") @@ AccessLink(hosts[k])]
    \o [k \in 1..Len(InterSwitchLinks) |-> TopoOp("addLink") @@ InterSwitchLinks[k]]

\* configure_switches: two ovs-vsctl commands per switch
configure_switches_ops ==
    [k \in 1..(2 * Len(switches)) |->
        [layer |-> "switch", op |-> "ovs-vsctl",
         switch |-> switches[(k + 1) \div 2],
         set |-> IF k % 2 = 1 THEN "fail-mode standalone" ELSE "stp_enable=true"]]

\* apply_qos_policies: the branch taken for a host; rates in mbit
QosClass_IotAboveRoot(h) ==
    CASE h \in {"h1", "h2"} ->
           [service |-> "Web", root_rate |-> 100, classid |-> "1:10",
            rate |-> 80, ceil |-> 100, prio |-> 1]
      [] h \in {"h3", "h4"} ->
           [service |-> "Video", root_rate |-> 1000, classid |-> "1:20",
            rate |-> 800, ceil |-> 1000, prio |-> 2]
      [] OTHER ->
           [service |-> "IoT", root_rate |-> 100, classid |-> "1:30",
            rate |-> 50, ceil |-> 1000, prio |-> 3]

QosClass(h) ==
    CASE h \in {"h1", "h2"} ->
           [service |-> "Web", root_rate |-> 100, classid |-> "1:10",
            rate |-> 80, ceil |-> 100, prio |-> 1]
      [] h \in {"h3", "h4"} ->
           [service |-> "Video", root_rate |-> 1000, classid |-> "1:20",
            rate |-> 800, ceil |-> 1000, prio |-> 2]
      [] OTHER ->
           [service |-> "IoT", root_rate |-> 100, classid |-> "1:30",
            rate |-> 50, ceil |-> 100, prio |-> 3]

\* h.intfList() without 'lo': one interface per link of the host
IntfList(h) == << <<AccessLink(h).a, "eth0">> >>

\* the three tc commands apply_qos_policies issues for one interface
QosOps(h, intf) ==
    LET c == QosClass(h)
        tc(o) == [layer |-> "qos", op |-> o, host |-> h, intf |-> intf]
    IN  << tc("tc qdisc add") @@ [parent |-> "root", handle |-> "1:", default |-> 30],
           tc("tc class add") @@ [parent |-> "1:", classid |-> "1:1",
                                   rate |-> c.root_rate],
           tc("tc class add") @@ [parent |-> "1:1", classid |-> c.classid,
                                   service |-> c.service, rate |-> c.rate,
                                   ceil |-> c.ceil, prio |-> c.prio] >>

\* apply_qos_policies for one host: every interface of its list
QosOpsHost(h) ==
    LET F[k \in 0..Len(IntfList(h))] ==
            IF k = 0 THEN <<>> ELSE F[k - 1] \o QosOps(h, IntfList(h)[k])
    IN  F[Len(IntfList(h))]

\* time.sleep(5) after configure_switches; time.sleep(5) after start_network;
\* the 5 of time.sleep(duration + 5)
StpWait == 5
InitWait == 5
TrafficSlack == 5

Sleep(n, why) == [layer |-> "wait", op |-> "sleep", seconds |-> n, why |-> why]

Say(t) == [layer |-> "text", op |-> "print", text |-> t]

\* what start_network does for the routing mode it is given: nothing
RoutingOps_StaticRoutes(routing) ==
    IF routing = "static"
    THEN <<[layer |-> "switch", op |-> "ip route add", routing |-> routing]>>
    ELSE <<>>

RoutingOps(routing) == <<>>

\* the iperf server and client of the k-th flow of run_experiment
Flows ==
    << [client |-> "h1", server |-> "h2", port |-> 5001, opts |-> ""],
       [client |-> "h3", server |-> "h4", port |-> 5002, opts |-> "-u -b 500M"],
       [client |-> "h5", server |-> "h6", port |-> 5003, opts |-> "-i 10"] >>

FlowOps(k, d) ==
    << [layer |-> "traffic", op |-> "iperf -s", host |-> Flows[k].server,
        port |-> Flows[k].port],
       [layer |-> "traffic", op |-> "iperf -c", host |-> Flows[k].client,
        to |-> HostIP(Flows[k].server), port |-> Flows[k].port,
        opts |-> Flows[k].opts, t |-> d] >>

\* the order of the steps of run_experiment (start_network included)
Steps_TrafficBeforeCapture ==
    << "banner", "create_topology", "net_start", "configure_switches", "stp_wait",
       "apply_qos", "init_wait", "traffic", "capture", "traffic_wait",
       "terminate", "statistics", "killall", "stop_network", "completed" >>

Steps ==
    << "banner", "create_topology", "net_start", "configure_switches", "stp_wait",
       "apply_qos", "init_wait", "capture", "traffic", "traffic_wait",
       "terminate", "statistics", "killall", "stop_network", "completed" >>

\* the step that follows step p
After(p) == Steps[(CHOOSE k \in DOMAIN Steps : Steps[k] = p) + 1]

ExperimentIdle ==
    /\ x_qos = FALSE
    /\ x_duration = 0
    /\ x_pc = [r \in Routings |-> "idle"]
    /\ x_i = [r \in Routings |-> 1]
    /\ x_ops = [r \in Routings |-> <<>>]

(***************************************************************************)
(* TrafficAnalyzer.run_full_analysis, step by step.                        *)
(***************************************************************************)
AnalyzerIdle ==
    /\ an_pc = "start"
    /\ idx = 1
    /\ results = <<>>
    /\ an_out = <<>>
    /\ protocol_chart = NONE
    /\ switch_chart = NONE
    /\ host_chart = NONE
    /\ report = NONE

InitAnalyzer ==
    /\ pcap_dir \in Listings
    /\ AnalyzerIdle
    /\ TrafficIdle
    /\ MainIdle
    /\ ExperimentIdle

\* analyze_all_pcaps, up to the loop: list the directory
ListPcaps ==
    /\ an_pc = "start"
    /\ IF pcap_files = <<>>
       THEN /\ an_out' = an_out \o << <<"No pcap files found!">>, <<"No data to analyze!">> >>
            /\ an_pc' = "done"
       ELSE /\ an_out' = an_out
            /\ an_pc' = "ingest"
    /\ UNCHANGED <<pcap_dir, idx, results, protocol_chart, switch_chart,
                   host_chart, report>>
    /\ UNCHANGED <<tg_vars, main_vars, x_vars>>

\* analyze_all_pcaps, one iteration: analyze_pcap succeeds and is appended
IngestOk ==
    /\ an_pc = "ingest"
    /\ idx <= Len(pcap_files)
    /\ \E raw \in RawSummaries :
          results' = Append(results, analyze_pcap(pcap_files[idx], raw))
    /\ idx' = idx + 1
    /\ UNCHANGED <<pcap_dir, an_pc, an_out, protocol_chart, switch_chart,
                   host_chart, report>>
    /\ UNCHANGED <<tg_vars, main_vars, x_vars>>

\* analyze_all_pcaps, one iteration: analyze_pcap raises (a subprocess call
\* fails); the exception is printed and the file skipped
IngestFails ==
    /\ an_pc = "ingest"
    /\ idx <= Len(pcap_files)
    /\ an_out' = Append(an_out, <<"Error analyzing", pcap_files[idx]>>)
    /\ idx' = idx + 1
    /\ UNCHANGED <<pcap_dir, an_pc, results, protocol_chart, switch_chart,
                   host_chart, report>>
    /\ UNCHANGED <<tg_vars, main_vars, x_vars>>

\* analyze_all_pcaps returns; run_full_analysis stops when results is empty
IngestDone ==
    /\ an_pc = "ingest"
    /\ idx > Len(pcap_files)
    /\ IF results = <<>>
       THEN /\ an_out' = Append(an_out, <<"No data to analyze!">>)
            /\ an_pc' = "done"
       ELSE /\ an_out' = an_out
            /\ an_pc' = "protocol_chart"
    /\ UNCHANGED <<pcap_dir, idx, results, protocol_chart, switch_chart,
                   host_chart, report>>
    /\ UNCHANGED <<tg_vars, main_vars, x_vars>>

generate_protocol_chart ==
    /\ an_pc = "protocol_chart"
    /\ protocol_chart' = TotalProtocols(results)
    /\ an_pc' = "by_switch"
    /\ UNCHANGED <<pcap_dir, idx, results, an_out, switch_chart, host_chart, report>>
    /\ UNCHANGED <<tg_vars, main_vars, x_vars>>

generate_traffic_by_switch ==
    /\ an_pc = "by_switch"
    /\ switch_chart' = SwitchData(results)
    /\ an_pc' = "host_matrix"
    /\ UNCHANGED <<pcap_dir, idx, results, an_out, protocol_chart, host_chart, report>>
    /\ UNCHANGED <<tg_vars, main_vars, x_vars>>

generate_host_traffic_matrix ==
    /\ an_pc = "host_matrix"
    /\ LET hd == HostData(results)
       IN  IF DOMAIN hd = {}
           THEN /\ host_chart' = host_chart
                /\ an_out' = Append(an_out, <<"No host traffic data available">>)
           ELSE /\ host_chart' = hd
                /\ an_out' = an_out
    /\ an_pc' = "report"
    /\ UNCHANGED <<pcap_dir, idx, results, protocol_chart, switch_chart, report>>
    /\ UNCHANGED <<tg_vars, main_vars, x_vars>>

generate_report ==
    /\ an_pc = "report"
    /\ report' = Report(results)
    /\ an_pc' = "done"
    /\ UNCHANGED <<pcap_dir, idx, results, an_out, protocol_chart, switch_chart,
                   host_chart>>
    /\ UNCHANGED <<tg_vars, main_vars, x_vars>>

NextAnalyzer ==
    \/ ListPcaps
    \/ IngestOk
    \/ IngestFails
    \/ IngestDone
    \/ generate_protocol_chart
    \/ generate_traffic_by_switch
    \/ generate_host_traffic_matrix
    \/ generate_report

SpecAnalyzer == InitAnalyzer /\ [][NextAnalyzer]_vars

(***************************************************************************)
(* TrafficGenerator, step by step.                                         *)
(***************************************************************************)
InitTraffic ==
    /\ pcap_dir = <<>>
    /\ AnalyzerIdle
    /\ MainIdle
    /\ ExperimentIdle
    /\ duration \in 0..MaxDuration
    /\ now = 0
    /\ stop_event = FALSE
    /\ t_pc = [u \in Units |-> "idle"]
    /\ sleep = [u \in Units |-> 0]
    /\ hung = [u \in IperfUnits |-> FALSE]
    /\ killed = FALSE
    /\ packet_count = 0
    /\ quality = "720p"
    /\ video_wrote = NONE
    /\ observed = {}
    /\ tg_pc = "idle"
    /\ join_idx = 1
    /\ join_left = 0
    /\ since_stop = 0
    /\ tg_out = <<>>

\* start_all_traffic: the five threads are started
start_all_traffic ==
    /\ tg_pc = "idle"
    /\ tg_pc' = "started"
    /\ tg_out' = Append(tg_out, <<"Starting traffic generation...">>)
    /\ t_pc' = [u \in Units |-> IF u \in IperfUnits THEN "begin" ELSE "loop"]
    /\ UNCHANGED <<duration, now, stop_event, sleep, hung, killed, packet_count,
                   quality, video_wrote, observed, join_idx, join_left, since_stop>>
    /\ UNCHANGED <<an_vars, main_vars, x_vars>>

\* generate_web_traffic: the loop test and, when it passes, one request and
\* response, then the think time
generate_web_traffic ==
    /\ t_pc["web"] = "loop"
    /\ sleep["web"] = 0
    /\ IF now < duration /\ ~stop_event
       THEN /\ \E think \in 1..WebThinkMax : sleep' = [sleep EXCEPT !["web"] = think]
            /\ UNCHANGED <<t_pc, observed>>
       ELSE /\ t_pc' = [t_pc EXCEPT !["web"] = "done"]
            /\ observed' = IF now < duration THEN observed \cup {"web"} ELSE observed
            /\ UNCHANGED sleep
    /\ UNCHANGED <<duration, now, stop_event, hung, killed, packet_count, quality, video_wrote,
                   tg_pc, join_idx, join_left, since_stop, tg_out>>
    /\ UNCHANGED <<an_vars, main_vars, x_vars>>

\* generate_iot_traffic: the loop test and, when it passes, one sensor update
\* and the interval; after the loop the totals and the average interval
\* duration/packet_count are written
generate_iot_traffic ==
    /\ t_pc["iot"] = "loop"
    /\ sleep["iot"] = 0
    /\ IF now < duration /\ ~stop_event
       THEN /\ packet_count' = packet_count + 1
            /\ \E interval \in IotIntervalMin..IotIntervalMax :
                  sleep' = [sleep EXCEPT !["iot"] = interval]
            /\ UNCHANGED <<t_pc, observed>>
       ELSE /\ t_pc' = [t_pc EXCEPT !["iot"] =
                          IF packet_count = 0 THEN "raised" ELSE "done"]
            /\ observed' = IF now < duration THEN observed \cup {"iot"} ELSE observed
            /\ UNCHANGED <<sleep, packet_count>>
    /\ UNCHANGED <<duration, now, stop_event, hung, killed, quality, video_wrote,
                   tg_pc, join_idx, join_left, since_stop, tg_out>>
    /\ UNCHANGED <<an_vars, main_vars, x_vars>>

\* generate_video_traffic and generate_cross_traffic: the iperf server is
\* started on dst, then time.sleep(1)
StartIperfServer(u) ==
    /\ t_pc[u] = "begin"
    /\ t_pc' = [t_pc EXCEPT ![u] = "setup"]
    /\ sleep' = [sleep EXCEPT ![u] = SetupSleep]
    /\ UNCHANGED <<duration, now, stop_event, hung, killed, packet_count, quality, video_wrote,
                   observed, tg_pc, join_idx, join_left, since_stop, tg_out>>
    /\ UNCHANGED <<an_vars, main_vars, x_vars>>

\* generate_video_traffic: src.sendCmd(iperf -c ... -t duration) at 720p
VideoStream ==
    /\ t_pc["video"] = "setup"
    /\ sleep["video"] = 0
    /\ quality' = "720p"
    /\ video_wrote' = "Starting video stream"
    /\ \E h \in BOOLEAN : hung' = [hung EXCEPT !["video"] = h]
    /\ t_pc' = [t_pc EXCEPT !["video"] = "loop"]
    /\ UNCHANGED <<duration, now, stop_event, sleep, killed, packet_count,
                   observed, tg_pc, join_idx, join_left, since_stop, tg_out>>
    /\ UNCHANGED <<an_vars, main_vars, x_vars>>

\* generate_video_traffic: the monitor loop; its start_time is taken after
\* the setup sleep
VideoMonitor ==
    /\ t_pc["video"] = "loop"
    /\ sleep["video"] = 0
    /\ IF now - SetupSleep < duration /\ ~stop_event
       THEN /\ \E change \in BOOLEAN :
                  IF change
                  THEN /\ quality' \in random_choice(Qualities, quality)
                       /\ video_wrote' = "Quality changed"
                  ELSE /\ quality' = quality
                       /\ video_wrote' = NONE
            /\ sleep' = [sleep EXCEPT !["video"] = VideoTick]
            /\ UNCHANGED <<t_pc, observed>>
       ELSE /\ t_pc' = [t_pc EXCEPT !["video"] = "wait_output"]
            /\ observed' = IF now - SetupSleep < duration
                           THEN observed \cup {"video"} ELSE observed
            /\ video_wrote' = NONE
            /\ UNCHANGED <<sleep, quality>>
    /\ UNCHANGED <<duration, now, stop_event, hung, killed, packet_count,
                   tg_pc, join_idx, join_left, since_stop, tg_out>>
    /\ UNCHANGED <<an_vars, main_vars, x_vars>>

\* generate_cross_traffic: src.sendCmd(iperf -c ... -t duration)
CrossStream(u) ==
    /\ u \in {"cross1", "cross2"}
    /\ t_pc[u] = "setup"
    /\ sleep[u] = 0
    /\ \E h \in BOOLEAN : hung' = [hung EXCEPT ![u] = h]
    /\ t_pc' = [t_pc EXCEPT ![u] = "wait_output"]
    /\ UNCHANGED <<duration, now, stop_event, sleep, killed, packet_count, quality, video_wrote,
                   observed, tg_pc, join_idx, join_left, since_stop, tg_out>>
    /\ UNCHANGED <<an_vars, main_vars, x_vars>>

\* src.waitOutput() returns, the iperf server is killed and the thread ends
WaitOutput(u) ==
    /\ t_pc[u] = "wait_output"
    /\ CommandOver(u)
    /\ t_pc' = [t_pc EXCEPT ![u] = "done"]
    /\ UNCHANGED <<duration, now, stop_event, sleep, hung, killed, packet_count,
                   quality, video_wrote, observed, tg_pc, join_idx, join_left, since_stop, tg_out>>
    /\ UNCHANGED <<an_vars, main_vars, x_vars>>

\* stop_all_traffic: the stop event is set
stop_all_traffic ==
    /\ tg_pc = "started"
    /\ stop_event' = TRUE
    /\ tg_out' = Append(tg_out, <<"Stopping traffic generation...">>)
    /\ tg_pc' = "joining"
    /\ join_idx' = 1
    /\ join_left' = JoinTimeout
    /\ UNCHANGED <<duration, now, t_pc, sleep, hung, killed, packet_count, quality, video_wrote,
                   observed, since_stop>>
    /\ UNCHANGED <<an_vars, main_vars, x_vars>>

\* stop_all_traffic: thread.join(timeout=5) of the next thread returns
thread_join ==
    /\ tg_pc = "joining"
    /\ JoinReturns(traffic_threads[join_idx], join_left)
    /\ IF join_idx = Len(traffic_threads)
       THEN /\ tg_pc' = "killing"
            /\ UNCHANGED <<join_idx, join_left>>
       ELSE /\ join_idx' = join_idx + 1
            /\ join_left' = JoinTimeout
            /\ UNCHANGED tg_pc
    /\ UNCHANGED <<duration, now, stop_event, t_pc, sleep, hung, killed,
                   packet_count, quality, video_wrote, observed, since_stop, tg_out>>
    /\ UNCHANGED <<an_vars, main_vars, x_vars>>

\* stop_all_traffic: killall iperf and killall ping on every host, then return
kill_remaining ==
    /\ tg_pc = "killing"
    /\ killed' = TRUE
    /\ tg_pc' = "stopped"
    /\ UNCHANGED <<duration, now, stop_event, t_pc, sleep, hung, packet_count,
                   quality, video_wrote, observed, join_idx, join_left, since_stop, tg_out>>
    /\ UNCHANGED <<an_vars, main_vars, x_vars>>

\* some step can be taken without time passing
ThreadCanStep(u) ==
    \/ t_pc[u] = "begin"
    \/ t_pc[u] \in {"loop", "setup"} /\ sleep[u] = 0
    \/ t_pc[u] = "wait_output" /\ CommandOver(u)

Urgent ==
    \/ \E u \in Units : ThreadCanStep(u)
    \/ tg_pc = "joining" /\ JoinReturns(traffic_threads[join_idx], join_left)
    \/ tg_pc = "killing"

\* one second passes, when every thread sleeps or waits
Tick ==
    /\ tg_pc \in {"started", "joining", "stopped"}
    /\ ~Urgent
    /\ now' = Min(now + 1, duration + SetupSleep)
    /\ sleep' = [u \in Units |-> Max(sleep[u] - 1, 0)]
    /\ join_left' = IF tg_pc = "joining" THEN Max(join_left - 1, 0) ELSE join_left
    /\ since_stop' = IF stop_event THEN Min(since_stop + 1, IotIntervalMax + 1)
                     ELSE since_stop
    /\ UNCHANGED <<duration, stop_event, t_pc, hung, killed, packet_count, quality, video_wrote,
                   observed, tg_pc, join_idx, tg_out>>
    /\ UNCHANGED <<an_vars, main_vars, x_vars>>

NextTraffic ==
    \/ start_all_traffic
    \/ generate_web_traffic
    \/ generate_iot_traffic
    \/ \E u \in IperfUnits : StartIperfServer(u)
    \/ VideoStream
    \/ VideoMonitor
    \/ \E u \in {"cross1", "cross2"} : CrossStream(u)
    \/ \E u \in IperfUnits : WaitOutput(u)
    \/ stop_all_traffic
    \/ thread_join
    \/ kill_remaining
    \/ Tick

SpecTraffic == InitTraffic /\ [][NextTraffic]_vars

\* the threads are scheduled and time passes
FairTraffic == InitTraffic /\ [][NextTraffic]_vars /\ WF_vars(NextTraffic)

(***************************************************************************)
(* main, step by step.                                                     *)
(***************************************************************************)
InitMain ==
    /\ pcap_dir = <<>>
    /\ AnalyzerIdle
    /\ TrafficIdle
    /\ ExperimentIdle
    /\ args \in [demo : BOOLEAN, all : BOOLEAN, qos : BOOLEAN,
                 routing : {"none", "static"}]
    /\ m_pc = "cleanup"
    /\ exp_i = 1
    /\ results_summary = <<>>
    /\ raised = "none"
    /\ ops = <<>>

\* run_single_experiment has returned `success`
AfterExperiment_StopAtFailure(success) ==
    IF Mode = "all"
    THEN /\ results_summary' =
               Append(results_summary,
                      [experiment |-> CurrentExperiment, success |-> success])
         /\ IF exp_i < Len(experiments) /\ success
            THEN /\ exp_i' = exp_i + 1
                 /\ m_pc' = "cleanup"
            ELSE /\ exp_i' = exp_i
                 /\ m_pc' = "summary"
    ELSE /\ m_pc' = "finally"
         /\ UNCHANGED <<exp_i, results_summary>>

AfterExperiment(success) ==
    IF Mode = "all"
    THEN /\ results_summary' =
               Append(results_summary,
                      [experiment |-> CurrentExperiment, success |-> success])
         /\ IF exp_i < Len(experiments)
            THEN /\ exp_i' = exp_i + 1
                 /\ m_pc' = "cleanup"
            ELSE /\ exp_i' = exp_i
                 /\ m_pc' = "summary"
    ELSE /\ m_pc' = "finally"
         /\ UNCHANGED <<exp_i, results_summary>>

\* cleanup_previous before an experiment (and the sleep that follows it)
cleanup_previous ==
    /\ m_pc = "cleanup"
    /\ ops' = Append(ops, CleanupOp(Caller))
    /\ \E o \in Outcomes :
          IF o = "ok"
          THEN /\ m_pc' = "run_experiment"
               /\ UNCHANGED raised
          ELSE /\ m_pc' = "except"
               /\ raised' = o
    /\ UNCHANGED <<args, exp_i, results_summary>>
    /\ UNCHANGED <<an_vars, tg_vars, x_vars>>

\* run_single_experiment: run_experiment(qos_enabled, routing, duration).
\* The captures it starts are written into the pcaps directory; a run that
\* fails may have started any number of them.
run_experiment ==
    /\ m_pc = "run_experiment"
    /\ \E o \in Outcomes :
       \E n \in IF o = "ok" THEN {Len(switches)} ELSE 0..Len(switches) :
          /\ ops' = Append(ops, [op |-> "run_experiment",
                                 qos |-> CurrentExperiment[1],
                                 routing |-> CurrentExperiment[2],
                                 captures |-> CaptureFiles(exp_i, n),
                                 outcome |-> o])
          /\ pcap_dir' = pcap_dir \o CaptureFiles(exp_i, n)
          /\ CASE o = "ok" ->
                    /\ m_pc' = "analysis"
                    /\ UNCHANGED <<exp_i, results_summary, raised>>
               [] o = "Exception" ->
                    /\ AfterExperiment(FALSE)
                    /\ UNCHANGED raised
               [] OTHER ->
                    /\ m_pc' = "except"
                    /\ raised' = o
                    /\ UNCHANGED <<exp_i, results_summary>>
    /\ UNCHANGED args
    /\ UNCHANGED <<an_pc, idx, results, an_out, protocol_chart, switch_chart,
                   host_chart, report>>
    /\ UNCHANGED <<tg_vars, x_vars>>

\* run_single_experiment: TrafficAnalyzer(pcap_dir=self.pcaps_dir, ...)
\* .run_full_analysis(); analyze_all_pcaps ingests every .pcap of the directory
run_full_analysis ==
    /\ m_pc = "analysis"
    /\ \E o \in Outcomes :
          /\ ops' = Append(ops, [op |-> "run_full_analysis",
                                 qos |-> CurrentExperiment[1],
                                 routing |-> CurrentExperiment[2],
                                 ingested |-> pcap_files,
                                 outcome |-> o])
          /\ CASE o = "ok" ->
                    /\ AfterExperiment(TRUE)
                    /\ UNCHANGED raised
               [] o = "Exception" ->
                    /\ AfterExperiment(FALSE)
                    /\ UNCHANGED raised
               [] OTHER ->
                    /\ m_pc' = "except"
                    /\ raised' = o
                    /\ UNCHANGED <<exp_i, results_summary>>
    /\ UNCHANGED args
    /\ UNCHANGED <<an_vars, tg_vars, x_vars>>

\* run_all_experiments: generate_summary_report(results_summary)
generate_summary_report ==
    /\ m_pc = "summary"
    /\ ops' = Append(ops, [op |-> "generate_summary_report",
                           summary |-> results_summary])
    /\ \E o \in Outcomes :
          IF o = "ok"
          THEN /\ m_pc' = "finally"
               /\ UNCHANGED raised
          ELSE /\ m_pc' = "except"
               /\ raised' = o
    /\ UNCHANGED <<args, exp_i, results_summary>>
    /\ UNCHANGED <<an_vars, tg_vars, x_vars>>

\* main: except KeyboardInterrupt / except Exception
main_except ==
    /\ m_pc = "except"
    /\ ops' = Append(ops, [op |-> "print", text |->
                             IF raised = "KeyboardInterrupt"
                             THEN "Experiment interrupted by user"
                             ELSE "Fatal error"])
    /\ m_pc' = "finally"
    /\ UNCHANGED <<args, exp_i, results_summary, raised>>
    /\ UNCHANGED <<an_vars, tg_vars, x_vars>>

\* main: finally
main_finally ==
    /\ m_pc = "finally"
    /\ ops' = ops \o FinallyOps(raised)
    /\ m_pc' = "exit"
    /\ UNCHANGED <<args, exp_i, results_summary, raised>>
    /\ UNCHANGED <<an_vars, tg_vars, x_vars>>

NextMain ==
    \/ cleanup_previous
    \/ run_experiment
    \/ run_full_analysis
    \/ generate_summary_report
    \/ main_except
    \/ main_finally

SpecMain == InitMain /\ [][NextMain]_vars

(***************************************************************************)
(* run_experiment of network_topology.py, step by step, once per routing   *)
(* mode.                                                                   *)
(***************************************************************************)
\* the durations main passes: 30 for --demo, 60 by default
Durations == {30, 60}

InitExperiment ==
    /\ pcap_dir = <<>>
    /\ AnalyzerIdle
    /\ TrafficIdle
    /\ MainIdle
    /\ x_qos \in BOOLEAN
    /\ x_duration \in Durations
    /\ x_pc = [r \in Routings |-> Steps[1]]
    /\ x_i = [r \in Routings |-> 1]
    /\ x_ops = [r \in Routings |-> <<>>]

\* run r performs `entries` and moves on to step p
Do(r, entries, p) ==
    /\ x_ops' = [x_ops EXCEPT ![r] = @ \o entries]
    /\ x_pc' = [x_pc EXCEPT ![r] = p]
    /\ x_i' = [x_i EXCEPT ![r] = 1]
    /\ UNCHANGED <<x_qos, x_duration>>
    /\ UNCHANGED <<an_vars, tg_vars, main_vars>>

\* run r performs `entries` inside a loop over n items
Loop(r, entries, n) ==
    /\ x_ops' = [x_ops EXCEPT ![r] = @ \o entries]
    /\ IF x_i[r] < n
       THEN /\ x_i' = [x_i EXCEPT ![r] = @ + 1]
            /\ UNCHANGED x_pc
       ELSE /\ x_i' = [x_i EXCEPT ![r] = 1]
            /\ x_pc' = [x_pc EXCEPT ![r] = After(x_pc[r])]
    /\ UNCHANGED <<x_qos, x_duration>>
    /\ UNCHANGED <<an_vars, tg_vars, main_vars>>

\* print(f"=== Starting Mininet Topology (QoS: ..., Routing: ...) ===")
experiment_banner(r) ==
    /\ x_pc[r] = "banner"
    /\ Do(r, <<Say(<<"Starting Mininet Topology">>) @@ [qos |-> x_qos, routing |-> r]>>,
          After("banner"))

\* start_network: self.create_topology()
create_topology(r) ==
    /\ x_pc[r] = "create_topology"
    /\ Do(r, create_topology_ops, After("create_topology"))

\* start_network: self.net.start()
net_start(r) ==
    /\ x_pc[r] = "net_start"
    /\ Do(r, <<TopoOp("net.start")>>, After("net_start"))

\* start_network: self.configure_switches()
configure_switches(r) ==
    /\ x_pc[r] = "configure_switches"
    /\ Do(r, configure_switches_ops, After("configure_switches"))

\* start_network: the wait for STP, then `if qos_enabled:`
stp_wait(r) ==
    /\ x_pc[r] = "stp_wait"
    /\ Do(r, <<Sleep(StpWait, "stp")>> \o RoutingOps(r),
          IF x_qos THEN After("stp_wait") ELSE After(After("stp_wait")))

\* start_network: self.apply_qos_policies(), one host per step
apply_qos_policies(r) ==
    /\ x_pc[r] = "apply_qos"
    /\ Loop(r, QosOpsHost(hosts[x_i[r]]), Len(hosts))

\* print("Waiting for network to initialize..."); time.sleep(5)
init_wait(r) ==
    /\ x_pc[r] = "init_wait"
    /\ Do(r, <<Say(<<"Waiting for network to initialize...">>),
               Sleep(InitWait, "init")>>, After("init_wait"))

\* sw.popen(['tcpdump', '-i', 'any', '-w', pcap_file]), one switch per step
start_capture(r) ==
    /\ x_pc[r] = "capture"
    /\ Loop(r, <<[layer |-> "capture", op |-> "tcpdump",
                  switch |-> switches[x_i[r]],
                  file |-> CaptureFiles(1, Len(switches))[x_i[r]]]>>,
            Len(switches))

\* the iperf server and client of one flow per step
start_traffic(r) ==
    /\ x_pc[r] = "traffic"
    /\ Loop(r, FlowOps(x_i[r], x_duration), Len(Flows))

\* time.sleep(duration + 5)
traffic_wait(r) ==
    /\ x_pc[r] = "traffic_wait"
    /\ Do(r, <<Say(<<"Traffic generation in progress...">>),
               Sleep(x_duration + TrafficSlack, "traffic")>>, After("traffic_wait"))

\* proc.terminate(), one capture per step
stop_capture(r) ==
    /\ x_pc[r] = "terminate"
    /\ Loop(r, <<[layer |-> "capture", op |-> "terminate",
                  switch |-> switches[x_i[r]]]>>, Len(switches))

\* the statistics file: its header, then `ip -s link show` on every host
collect_statistics(r) ==
    /\ x_pc[r] = "statistics"
    /\ Do(r, <<[layer |-> "text", op |-> "write", file |-> "stats",
                qos |-> x_qos, routing |-> r]>>
             \o [k \in 1..Len(hosts) |->
                   [layer |-> "stats", op |-> "ip -s link show", host |-> hosts[k]]],
          After("statistics"))

\* host.cmd('killall iperf 2>/dev/null') on every host
kill_iperf(r) ==
    /\ x_pc[r] = "killall"
    /\ Do(r, [k \in 1..Len(hosts) |->
                 [layer |-> "traffic", op |-> "killall iperf", host |-> hosts[k]]],
          After("killall"))

\* mn.stop_network(); print("Experiment completed!")
stop_network(r) ==
    /\ x_pc[r] = "stop_network"
    /\ Do(r, <<TopoOp("net.stop"), Say(<<"Experiment completed!">>)>>,
          After("stop_network"))

NextExperiment ==
    \/ \E r \in Routings : experiment_banner(r)
    \/ \E r \in Routings : create_topology(r)
    \/ \E r \in Routings : net_start(r)
    \/ \E r \in Routings : configure_switches(r)
    \/ \E r \in Routings : stp_wait(r)
    \/ \E r \in Routings : apply_qos_policies(r)
    \/ \E r \in Routings : init_wait(r)
    \/ \E r \in Routings : start_capture(r)
    \/ \E r \in Routings : start_traffic(r)
    \/ \E r \in Routings : traffic_wait(r)
    \/ \E r \in Routings : stop_capture(r)
    \/ \E r \in Routings : collect_statistics(r)
    \/ \E r \in Routings : kill_iperf(r)
    \/ \E r \in Routings : stop_network(r)

SpecExperiment == InitExperiment /\ [][NextExperiment]_vars

(***************************************************************************)
(* Which artifacts of a run exist.                                         *)
(***************************************************************************)
SwitchChartWritten == an_pc \in {"host_matrix", "report", "done"} /\ results # <<>>

ReportWritten == an_pc = "done" /\ results # <<>>

\* the files whose ingestion raised, as printed by analyze_all_pcaps
FailedFiles ==
    { pcap_files[i] : i \in { j \in 1..Len(pcap_files) :
          \E k \in 1..Len(an_out) : an_out[k] = <<"Error analyzing", pcap_files[j]>> } }

\* the exclusions a report lists: generate_report writes the summary, the
\* per-switch statistics and the service type analysis, and nothing else
ReportExclusions == IF ReportWritten /\ "exclusions" \in DOMAIN report
                    THEN report.exclusions ELSE {}

\* the records of one capture point
RecordsOf(rs, name) == SelectSeq(rs, LAMBDA r : SplitFirst(r.filename) = name)

TotalsOf(rs) == [i \in 1..Len(rs) |-> rs[i].total_packets]

(***************************************************************************)
(* C1: every record produced by analyze_pcap has Other = total - (TCP +    *)
(* UDP + ICMP) with TCP + UDP + ICMP <= total, so Other is never negative; *)
(* a capture whose protocol counts exceed its total produces no record     *)
(* (InconsistentCounts).                                                   *)
(***************************************************************************)
C1_OtherNeverNegative ==
    \A i \in 1..Len(results) :
        LET r == results[i]
            counted == r.protocols.TCP + r.protocols.UDP + r.protocols.ICMP
        IN  /\ counted <= r.total_packets
            /\ r.protocols.Other = r.total_packets - counted
            /\ r.protocols.Other >= 0

(***************************************************************************)
(* C2: aggregation is order-independent: the protocol totals, the          *)
(* per-switch totals, the per-address totals and the global total computed *)
(* from any permutation of the records equal the ones the run produced.    *)
(***************************************************************************)
C2_OrderIndependent ==
    ReportWritten =>
        \A p \in Perms(Len(results)) :
            LET q == Permute(results, p)
            IN  /\ TotalProtocols(q) = protocol_chart
                /\ SwitchData(q) = switch_chart
                /\ HostData(q) = HostData(results)
                /\ Report(q).total_packets = report.total_packets

(***************************************************************************)
(* C3: the global total of the report is the sum of the records' totals,   *)
(* and the total of each capture point is the sum of the totals of the     *)
(* records that capture point produced.                                    *)
(***************************************************************************)
C3_TotalsAreSums ==
    ReportWritten =>
        /\ report.total_packets = SumSeq(TotalsOf(results))
        /\ \A s \in DOMAIN switch_chart :
              switch_chart[s] = SumSeq(TotalsOf(RecordsOf(results, s)))

(***************************************************************************)
(* C4: when the analysis run has ended, every capture file whose ingestion *)
(* failed is absent from the aggregated records and is listed in the       *)
(* exclusions of the report of that run.                                   *)
(***************************************************************************)
C4_FailuresReported ==
    an_pc = "done" =>
        \A f \in FailedFiles :
            /\ \A i \in 1..Len(results) : results[i].filename # f
            /\ f \in ReportExclusions

(***************************************************************************)
(* C5: the capture point of a record is the part of its file name before   *)
(* the first underscore, and a record whose file name has no underscore is *)
(* not grouped under any capture point name.                               *)
(***************************************************************************)
C5_NoUnderscoreRejected ==
    SwitchChartWritten =>
        \A i \in 1..Len(results) :
            LET f == results[i].filename
            IN  IF HasUnderscore(f)
                THEN /\ SplitFirst(f) \in DOMAIN switch_chart
                     /\ \E k \in 1..Len(f) :
                           /\ f[k] = "_"
                           /\ \A j \in 1..(k - 1) : f[j] # "_"
                           /\ SplitFirst(f) = SubSeq(f, 1, k - 1)
                ELSE SplitFirst(f) \notin DOMAIN switch_chart

(***************************************************************************)
(* C6: once stop_all_traffic has set the stop event, every workload unit   *)
(* whose external command is not hung is over within one tick of its loop  *)
(* (no unit is still sleeping or waiting more than one tick after the      *)
(* event was set), and a unit that found the event set is out of its       *)
(* emitting loop.                                                          *)
(***************************************************************************)
C6_StopWithinOneTick ==
    \A u \in Units :
        (u \in IperfUnits => ~hung[u]) =>
            /\ (since_stop > TickLen(u) /\ ~ThreadCanStep(u)) => Finished(u)
            /\ u \in observed => t_pc[u] # "loop"

(***************************************************************************)
(* C7: stop_all_traffic always completes: once it is joining the threads   *)
(* it reaches its return, even when some thread never finishes.            *)
(***************************************************************************)
C7_StopCompletes == (tg_pc = "joining") ~> (tg_pc = "stopped")

\* stop_all_traffic has returned although a thread still waits for an iperf
\* client that never ended by itself
C7_Witness ==
    /\ tg_pc = "stopped"
    /\ \E u \in IperfUnits : hung[u] /\ t_pc[u] = "wait_output"

(***************************************************************************)
(* C8: whenever a join in stop_all_traffic ends by its timeout with the    *)
(* thread unfinished, the thread is left running and a TimeoutAbandon      *)
(* entry naming it has been recorded.                                      *)
(***************************************************************************)
C8_AbandonRecorded ==
    [][ LET u == traffic_threads[join_idx]
        IN  (tg_pc = "joining" /\ ~Finished(u)
                /\ (join_idx' # join_idx \/ tg_pc' # tg_pc))
            => /\ t_pc'[u] = t_pc[u]
               /\ \E k \in 1..Len(tg_out') : tg_out'[k] = <<"TimeoutAbandon", u>> ]_vars

(***************************************************************************)
(* C9: generate_iot_traffic completes normally, also when its loop body    *)
(* never ran (no tick emitted): it never ends by raising.                  *)
(***************************************************************************)
C9_IotCompletesNormally == t_pc["iot"] # "raised"

(***************************************************************************)
(* C10: when main exits, whether the selected run returned, raised or was  *)
(* interrupted, the last operation performed is the cleanup_previous of    *)
(* the finally clause.                                                     *)
(***************************************************************************)
C10_CleanupIsFinalStep ==
    m_pc = "exit" => /\ Len(ops) > 0
                     /\ ops[Len(ops)] = CleanupOp("finally")

\* main has exited after a user interrupt in the all-combinations mode
C10_Witness ==
    /\ m_pc = "exit"
    /\ raised = "KeyboardInterrupt"
    /\ Mode = "all"
    /\ Len(results_summary) > 0

(***************************************************************************)
(* Capture files across the experiments of one runner.                     *)
(***************************************************************************)
Range(s) == { s[k] : k \in DOMAIN s }

\* the positions in the log of the analyses run so far
AnalysisOps == { k \in DOMAIN ops : ops[k].op = "run_full_analysis" }

\* C11: an analysis ingests only the captures of its own experiment (the
\* run_experiment call just before it), and no capture file is ingested by
\* two analyses.
C11_CapturesAnalysedOnce ==
    /\ \A k \in AnalysisOps :
          Range(ops[k].ingested) \subseteq Range(ops[k - 1].captures)
    /\ \A j, k \in AnalysisOps :
          j # k => Range(ops[j].ingested) \cap Range(ops[k].ingested) = {}

(***************************************************************************)
(* The shaping hierarchy installed by apply_qos_policies.                  *)
(***************************************************************************)
\* the positions in the log of run r of the entries of `layer` doing `op`
Idx(r, layer, op) ==
    { k \in DOMAIN x_ops[r] : x_ops[r][k].layer = layer /\ x_ops[r][k].op = op }

\* the tc entries of run r for host h below `parent`
TcOf(r, h, parent) ==
    { k \in Idx(r, "qos", "tc class add") \cup Idx(r, "qos", "tc qdisc add") :
         x_ops[r][k].host = h /\ x_ops[r][k].parent = parent }

\* htb: a class given no ceil has its rate as ceiling
Ceil(e) == IF "ceil" \in DOMAIN e THEN e.ceil ELSE e.rate

\* the hosts run r has applied QoS to
QosApplied(r) == { h \in Range(hosts) : TcOf(r, h, "1:1") # {} }

\* the bandwidth of the access link run r created for host h
LinkBw(r, h) ==
    LET k == CHOOSE j \in Idx(r, "topology", "addLink") : x_ops[r][j].a = h
    IN  x_ops[r][k].bw

\* C12: wherever QoS is applied, the host's interface has one root qdisc with
\* one root class whose ceiling is the capacity of the host's access link, and
\* one leaf, for the host's service class; the leaves' guaranteed rates sum
\* to at most the root ceiling; each leaf has rate <= ceil <= root ceiling;
\* leaves of different service classes have different priorities.
C12_HierarchyWellFormed ==
    \A r \in Routings :
       /\ \A h \in QosApplied(r) :
             /\ Cardinality(TcOf(r, h, "root")) = 1
             /\ Cardinality(TcOf(r, h, "1:")) = 1
             /\ Cardinality(TcOf(r, h, "1:1")) = 1
             /\ \A k \in TcOf(r, h, "1:") : \A l \in TcOf(r, h, "1:1") :
                   LET root == x_ops[r][k]
                       leaf == x_ops[r][l]
                   IN  /\ Ceil(root) = LinkBw(r, h)
                       /\ leaf.service = HostClass(h)
                       /\ SumOver(TcOf(r, h, "1:1"),
                                  [j \in TcOf(r, h, "1:1") |-> x_ops[r][j].rate])
                             <= Ceil(root)
                       /\ leaf.rate <= Ceil(leaf)
                       /\ Ceil(leaf) <= Ceil(root)
       /\ \A g, h \in QosApplied(r) :
             \A k \in TcOf(r, g, "1:1") : \A l \in TcOf(r, h, "1:1") :
                x_ops[r][k].service # x_ops[r][l].service
                   => x_ops[r][k].prio # x_ops[r][l].prio

\* QoS has been applied to all six hosts, of all three classes
C12_Witness ==
    \E r \in Routings : x_qos /\ QosApplied(r) = Range(hosts)

(***************************************************************************)
(* What the workload threads share.                                        *)
(***************************************************************************)
\* the thread of unit u has been started and is not over
Running(u) == t_pc[u] # "idle" /\ ~Finished(u)

\* C13: two workload units that are running at the same time have no host
\* handle in common, draw from different random sources and write to
\* different log files.
C13_UnitsShareNothing ==
    \A u, v \in Units :
       (u # v /\ Running(u) /\ Running(v)) =>
          /\ UnitHosts(u) \cap UnitHosts(v) = {}
          /\ RandomSource(u) # RandomSource(v)
          /\ LogTarget(u) # LogTarget(v)

(***************************************************************************)
(* The percentages of the report.                                          *)
(***************************************************************************)
\* x is within half a tenth of a percent of count / total * 100
NearestTenth(x, count, total) ==
    LET d == x * total - count * 1000
    IN  2 * d <= total /\ -2 * d <= total

\* the percentages printed for captures that hold packets are count/total*100
C14_PercentageOfTotal ==
    ReportWritten =>
       \A i \in DOMAIN report.per_switch : \A p \in Protocols :
          LET e == report.per_switch[i]
          IN  e.total_packets > 0 =>
                 NearestTenth(e.percentage[p], e.protocols[p], e.total_packets)

\* C14: the percentage printed beside a protocol count is count/total*100 when
\* the capture's total is positive; for a capture with total 0 it is 0 and
\* the capture's entry carries a flag saying that it has no base.
C14_ZeroTotalFlagged ==
    /\ C14_PercentageOfTotal
    /\ ReportWritten =>
          \A i \in DOMAIN report.per_switch : \A p \in Protocols :
             LET e == report.per_switch[i]
             IN  e.total_packets = 0 =>
                    /\ e.percentage[p] = 0
                    /\ "no_base" \in DOMAIN e
                    /\ e.no_base

(***************************************************************************)
(* The quality changes of the video workload.                              *)
(***************************************************************************)
\* an iteration of the video monitor loop takes place
VideoIteration ==
    /\ t_pc["video"] = "loop"
    /\ sleep["video"] = 0
    /\ sleep'["video"] = VideoTick

\* C15: an iteration of the video monitor that logs "Quality changed to ..."
\* names a rung other than the one the stream was on.
C15_ChangeNamesAnotherRung ==
    [][(VideoIteration /\ video_wrote' = "Quality changed") => quality' # quality]_vars

(***************************************************************************)
(* The topology's hosts in the service type analysis of the report.        *)
(***************************************************************************)
\* the packets the records count for the address of topology host h
CountedFor(rs, h) ==
    SumSeq([i \in 1..Len(rs) |->
              IF HostIP(h) \in DOMAIN rs[i].host_traffic
              THEN rs[i].host_traffic[HostIP(h)].sent
                   + rs[i].host_traffic[HostIP(h)].received
              ELSE 0])

\* C16: in the report, the total of a service class includes what the records
\* count for each topology host of that class; so a class has a total above
\* zero as soon as a record attributes sent frames to one of its hosts.
C16_TopologyHostsClassified ==
    ReportWritten =>
       \A h \in Range(hosts) :
          /\ report.service_traffic[HostClass(h)] >= CountedFor(results, h)
          /\ (\E i \in DOMAIN results :
                 /\ HostIP(h) \in DOMAIN results[i].host_traffic
                 /\ results[i].host_traffic[HostIP(h)].sent > 0)
                => report.service_traffic[HostClass(h)] > 0

(***************************************************************************)
(* run_all_experiments.                                                    *)
(***************************************************************************)
\* the positions in the log of the calls of `name`
OpsNamed(name) == { k \in DOMAIN ops : ops[k].op = name }

\* the position in the log of the k-th run_experiment call
NthRun(k) ==
    CHOOSE j \in OpsNamed("run_experiment") :
       Cardinality({ i \in OpsNamed("run_experiment") : i <= j }) = k

\* the k-th experiment succeeded: run_experiment returned and so did the
\* analysis that follows it
Succeeded(k) ==
    /\ ops[NthRun(k)].outcome = "ok"
    /\ NthRun(k) + 1 \in OpsNamed("run_full_analysis")
    /\ ops[NthRun(k) + 1].outcome = "ok"

\* the four combinations, in the order they are to be attempted
FourCombinations ==
    << <<FALSE, "none">>, <<TRUE, "none">>, <<FALSE, "static">>, <<TRUE, "static">> >>

\* C17: with --all, the experiments run are the four combinations in order,
\* each right after a cleanup_previous; as long as nothing but experiments
\* failed, the run goes on to the next combination and all four are run; the
\* summary is generated at most once, after the fourth, and has the four
\* combinations in order, each with whether that experiment succeeded.
C17_AllFourAttempted ==
    Mode = "all" =>
       /\ Cardinality(OpsNamed("run_experiment")) <= Len(FourCombinations)
       /\ \A k \in 1..Cardinality(OpsNamed("run_experiment")) :
             /\ <<ops[NthRun(k)].qos, ops[NthRun(k)].routing>> = FourCombinations[k]
             /\ NthRun(k) - 1 \in OpsNamed("cleanup_previous")
       /\ (raised = "none" /\ Len(results_summary) < Len(FourCombinations))
             => m_pc \in {"cleanup", "run_experiment", "analysis"}
       /\ (raised = "none" /\ m_pc = "exit")
             => Cardinality(OpsNamed("generate_summary_report")) = 1
       /\ Cardinality(OpsNamed("generate_summary_report")) <= 1
       /\ \A j \in OpsNamed("generate_summary_report") :
             /\ Cardinality(OpsNamed("run_experiment")) = Len(FourCombinations)
             /\ \A i \in OpsNamed("run_experiment") : i < j
             /\ Len(ops[j].summary) = Len(FourCombinations)
             /\ \A k \in 1..Len(FourCombinations) :
                   /\ ops[j].summary[k].experiment = FourCombinations[k]
                   /\ ops[j].summary[k].success = Succeeded(k)

\* --all ran to its end although the first experiment failed, and a later
\* one succeeded
C17_Witness ==
    /\ Mode = "all"
    /\ m_pc = "exit"
    /\ raised = "none"
    /\ Len(results_summary) = Len(FourCombinations)
    /\ ~results_summary[1].success
    /\ results_summary[Len(FourCombinations)].success

(***************************************************************************)
(* The routing argument of run_experiment.                                 *)
(***************************************************************************)
\* what a run did to the network: everything but the text it printed or wrote
NetworkOps(r) == SelectSeq(x_ops[r], LAMBDA e : e.layer # "text")

IsPrefix(s, t) == Len(s) <= Len(t) /\ s = SubSeq(t, 1, Len(s))

Completed(r) == x_pc[r] = "completed"

AllBefore(A, B) == \A a \in A : \A b \in B : a < b

\* the switches (or hosts) named by the entries of run r at the positions K
Named(r, K, field) == { x_ops[r][k][field] : k \in K }

\* the position in the log of run r of the wait for the traffic
TrafficWaits(r) == { k \in Idx(r, "wait", "sleep") : x_ops[r][k].why = "traffic" }

\* C19: in a run of run_experiment the network is started, and QoS applied
\* exactly if qos_enabled, before any capture starts; a capture is started on
\* every switch before any traffic generator is started; a capture is
\* terminated only after the wait for the traffic; the network is stopped
\* only after all captures are terminated and the statistics of every host
\* collected. A completed run has done all of it.
C19_StepsInOrder ==
    \A r \in Routings :
       LET started == Idx(r, "topology", "net.start")
           qos == Idx(r, "qos", "tc class add") \cup Idx(r, "qos", "tc qdisc add")
           captures == Idx(r, "capture", "tcpdump")
           traffic == Idx(r, "traffic", "iperf -s") \cup Idx(r, "traffic", "iperf -c")
           waits == TrafficWaits(r)
           terminated == Idx(r, "capture", "terminate")
           stats == Idx(r, "stats", "ip -s link show")
           stopped == Idx(r, "topology", "net.stop")
       IN  /\ captures # {} =>
                 /\ started # {}
                 /\ x_qos <=> QosApplied(r) = Range(hosts)
           /\ qos # {} => x_qos
           /\ AllBefore(started, captures)
           /\ AllBefore(qos, captures)
           /\ traffic # {} => Named(r, captures, "switch") = Range(switches)
           /\ AllBefore(captures, traffic)
           /\ terminated # {} => waits # {}
           /\ AllBefore(waits, terminated)
           /\ AllBefore(traffic, waits)
           /\ stopped # {} =>
                 /\ Named(r, terminated, "switch") = Range(switches)
                 /\ Named(r, stats, "host") = Range(hosts)
           /\ AllBefore(terminated, stopped)
           /\ AllBefore(stats, stopped)
           /\ Completed(r) => Cardinality(stopped) = 1

\* a run is completed: its captures were terminated and its network stopped
C19_Witness ==
    \E r \in Routings :
       /\ Completed(r)
       /\ Idx(r, "topology", "net.stop") # {}
       /\ Cardinality(Idx(r, "capture", "terminate")) = Len(switches)

====
